---- MODULE Spec2Model ----
(***************************************************************************)
(* FortifyNet proxy (src/src/lib.rs): the listener, the per-connection     *)
(* pipeline (credential gate, TLS terminator, hyper request loop), the     *)
(* request handler with its response cache and metrics sink, and the      *)
(* upstream forwarder with its direct and SOCKS5 strategies.               *)
(*                                                                         *)
(* A client's byte stream is a sequence of tokens: a request-line token,   *)
(* the header bytes "u", ":", "p" (the configured username, the colon,     *)
(* the configured password), "end" (the blank line closing a header        *)
(* block), and "hello" (a TLS ClientHello; everything behind it is sent    *)
(* only once the server has answered the handshake).  Writes to the client *)
(* socket are taken to succeed.                                            *)
(***************************************************************************)
EXTENDS Naturals, Sequences, FiniteSets, TLC

\* ------------------------------------------------------------------ bounds
MaxConns == 2
\* samples recorded by the run of the metrics sink examined on its own
MaxSamples == 3

\* --------------------------------------------------------------- constants
INTERNAL_SERVER_ERROR == 500
OK == 200
\* 2^16: a u32 is two digits of this base, a usize four
LIMB == 65536

Conns == 1..MaxConns
\* a std::sync::Mutex nobody holds
NoOne == 0
\* the background tasks that take the metrics mutex, as lock holders
Dashboard == MaxConns + 1
Logger == MaxConns + 2

\* ------------------------------------------------------------ request data
GET == "GET"
POST == "POST"

\* request-line tokens: method and request target
RequestLines == {"GET /a", "GET /", "POST /a"}

method_of(line) == IF line = "POST /a" THEN POST ELSE GET

uri_of(line) == IF line = "GET /" THEN "/" ELSE "/a"

Uris == { uri_of(l) : l \in RequestLines }

HeaderBytes == {"u", ":", "p"}

\* what a client may send over one connection
ClientStreams ==
    { << "GET /a", "end" >>,
      << "POST /a", "end", "GET /a", "end" >>,
      << "u", ":", "p", "GET /a", "end" >>,
      << "GET /", "u", ":", "p", "end" >>,
      << "hello", "GET /a", "end" >>,
      << "u", ":", "p", "hello", "GET /", "end" >> }

\* upstream answers
Statuses == {OK, 404}
Bodies == { <<"X">>, <<"Y", "Z">> }

\* start.elapsed(), in ticks; the handler never branches on it
Durations == {1}

\* Url::from_str("http://" + target without its scheme): for the bare path
\* "/" nothing is left to be the host
socks5_target_parses(uri) == uri # "/"

\* Url::from_str(target_address + target), target_address defaulting to
\* "http://localhost": an address that is no absolute URL parses with no target
direct_target_parses(cfg) == cfg.target_address # "unparsable"

\* StatusCode::is_success
is_success(status) == 200 <= status /\ status < 300

\* ----------------------------------------------------------------- helpers
Prefix(s, n) == SubSeq(s, 1, n)
Drop(s, n) == SubSeq(s, n + 1, Len(s))
Suffixes(s) == { Drop(s, n) : n \in 0..Len(s) }

\* str::contains
contains(hay, needle) ==
    \E i \in 0..(Len(hay) - Len(needle)) :
        SubSeq(hay, i + 1, i + Len(needle)) = needle

\* the bytes a peek on the raw socket can see: a TLS client holds back
\* everything behind its ClientHello until the handshake is answered
RECURSIVE HelloAt(_, _)
HelloAt(s, i) ==
    IF i > Len(s) THEN 0
    ELSE IF s[i] = "hello" THEN i
    ELSE HelloAt(s, i + 1)

Available(s) == IF HelloAt(s, 1) = 0 THEN s ELSE Prefix(s, HelloAt(s, 1))

\* first "end" at or after position i, 0 when there is none
RECURSIVE EndAt(_, _)
EndAt(s, i) ==
    IF i > Len(s) THEN 0
    ELSE IF s[i] = "end" THEN i
    ELSE EndAt(s, i + 1)

\* hyper's request-head parser on what is left of the stream:
\* "eof" (clean close), "malformed", or "request"
ParseKind(s) ==
    IF s = << >> THEN "eof"
    ELSE IF s[1] \notin RequestLines THEN "malformed"
    ELSE IF EndAt(s, 2) = 0 THEN "malformed"
    ELSE IF \A i \in 2..(EndAt(s, 2) - 1) : s[i] \in HeaderBytes THEN "request"
    ELSE "malformed"

\* ------------------------------------------------------------------- state
VARIABLES
    config,       \* ProxyConfig, fixed at construction
    listener,     \* "starting", "bound" or "failed"
    accepted,     \* number of connections accepted so far
    pc,           \* each connection task's position
    stream,       \* each connection's unread client bytes
    login_data,   \* the bytes the credential gate peeked at
    req,          \* the request being handled: [method, uri, stored_before]
    resp,         \* forward_response / response_to_client of that request
    result,       \* what the connection task returned: "-", "Ok" or "Err"
    cache,        \* ProxyState.cache: uri -> [body, by]
    cacheLock,    \* holder of the cache mutex
    metrics,      \* ProxyState.metrics
    metricsLock,  \* holder of the metrics mutex
    sent,         \* responses written to each client, in order
    fwdCalls,     \* forward_request calls made for each connection
    certLoads,    \* create_tls_acceptor calls made so far
    probe         \* the call examined by a function-level specification

\* the variables of the running server
server_vars == << config, listener, accepted, pc, stream, login_data, req, resp, result,
                  cache, cacheLock, metrics, metricsLock, sent, fwdCalls, certLoads >>

vars == << config, listener, accepted, pc, stream, login_data, req, resp, result, cache,
           cacheLock, metrics, metricsLock, sent, fwdCalls, certLoads, probe >>

conn_vars == << pc, stream, login_data, req, resp, result, sent, fwdCalls >>

PathStates == {"None", "unusable", "ok"}

\* ProxyConfig; the paths are only read when https_enabled, the
\* target_address only when no socks5_address is given
Configs ==
    { c \in [ authentication : BOOLEAN,
              cache_enabled : BOOLEAN,
              socks5_address : {"None", "valid", "unparsable"},
              target_address : {"None", "valid", "unparsable"},
              https_enabled : BOOLEAN,
              certificate_path : PathStates,
              private_key_path : PathStates ] :
        /\ ~c.https_enabled => (c.certificate_path = "ok" /\ c.private_key_path = "ok")
        /\ c.socks5_address # "None" => c.target_address = "None" }

\* format!("{}:{}", config.username, config.password)
credential == << "u", ":", "p" >>

NoReq == [method |-> "-", uri |-> "-", stored_before |-> FALSE]

\* Response::new(Body::empty()), before anything is known about it
NoResp ==
    [ status |-> 0, body |-> << >>, full |-> << >>, src |-> "-",
      failure |-> "-", by |-> << 0, 0 >> ]

\* an absent HashMap entry
NoEntry == [present |-> FALSE, body |-> << >>, by |-> << 0, 0 >>]

\* the status codes record_error can be called with here
ErrorStatuses == {s \in Statuses \cup {INTERNAL_SERVER_ERROR} : ~is_success(s)}

\* Metrics::default
Metrics_default ==
    [ total_requests |-> 0,
      response_times |-> << >>,
      cache_hits |-> 0,
      cache_misses |-> 0,
      error_counts |-> [s \in ErrorStatuses |-> 0] ]

\* ProxyState::new, before start_proxy_server has bound the listener
\* no function-level call is examined while the server runs
NoProbe == [ call |-> "none" ]

Init ==
    /\ config \in Configs
    /\ listener = "starting"
    /\ accepted = 0
    /\ pc = [c \in Conns |-> "idle"]
    /\ stream = [c \in Conns |-> << >>]
    /\ login_data = [c \in Conns |-> << >>]
    /\ req = [c \in Conns |-> NoReq]
    /\ resp = [c \in Conns |-> NoResp]
    /\ result = [c \in Conns |-> "-"]
    /\ cache = [u \in Uris |-> NoEntry]
    /\ cacheLock = NoOne
    /\ metrics = Metrics_default
    /\ metricsLock = NoOne
    /\ sent = [c \in Conns |-> << >>]
    /\ fwdCalls = [c \in Conns |-> 0]
    /\ certLoads = 0
    /\ probe = NoProbe

\* ----------------------------------------------------------------- metrics
\* a sink that keeps only a window of the latest samples
record_request_windowed(m, duration) ==
    [m EXCEPT !.total_requests = @ + 1,
              !.response_times = IF Len(@) >= 2 THEN << duration >>
                                 ELSE Append(@, duration)]

record_request(m, duration) ==
    [m EXCEPT !.total_requests = @ + 1,
              !.response_times = Append(@, duration)]

\* a hit that is counted as a miss as well
record_cache_hit_and_miss(m) ==
    [m EXCEPT !.cache_hits = @ + 1, !.cache_misses = @ + 1]

record_cache_hit(m) == [m EXCEPT !.cache_hits = @ + 1]

record_cache_miss(m) == [m EXCEPT !.cache_misses = @ + 1]

record_error(m, status_code) ==
    [m EXCEPT !.error_counts[status_code] = @ + 1]

\* ---------------------------------------------------------------- listener
\* start_proxy_server up to the accept loop: state, background tasks, bind.
\* Nothing here looks at https_enabled or at the certificate and key paths.
start_proxy_server ==
    /\ listener = "starting"
    /\ listener' \in {"bound", "failed"}
    /\ UNCHANGED << probe, config, accepted, conn_vars, cache, cacheLock, metrics,
                    metricsLock, certLoads >>

\* a loop that gives up on the first task error
task_finished_propagating(r) == IF r = "Err" THEN "failed" ELSE listener

\* the accept loop after a connection task has returned r: the result is
\* logged and the loop goes on
task_finished(r) == listener

\* one turn of the accept loop: a new stream, a new task
accept ==
    /\ listener = "bound"
    /\ accepted < MaxConns
    /\ \E s \in ClientStreams :
          /\ accepted' = accepted + 1
          /\ pc' = [pc EXCEPT ![accepted + 1] = "Accepted"]
          /\ stream' = [stream EXCEPT ![accepted + 1] = s]
    /\ UNCHANGED << probe, config, listener, login_data, req, resp, result, sent, fwdCalls, cache,
                    cacheLock, metrics, metricsLock, certLoads >>

\* the connection task ends with result r
Close(c, r) ==
    /\ pc' = [pc EXCEPT ![c] = "Closed"]
    /\ result' = [result EXCEPT ![c] = r]
    /\ listener' = task_finished(r)

\* -------------------------------------------------------------- connection
\* where handle_client_connection goes once the credential gate has passed
after_authentication ==
    IF config.https_enabled THEN "TLSHandshake" ELSE "Serving"

\* an entry point that runs the credential gate whatever the configuration
handle_client_connection_always_gated(c) ==
    /\ pc[c] = "Accepted"
    /\ pc' = [pc EXCEPT ![c] = "Authenticating"]
    /\ UNCHANGED << probe, config, listener, accepted, stream, login_data, req, resp, result, sent,
                    fwdCalls, cache, cacheLock, metrics, metricsLock, certLoads >>

handle_client_connection(c) ==
    /\ pc[c] = "Accepted"
    /\ pc' = [pc EXCEPT ![c] =
                IF config.authentication THEN "Authenticating"
                ELSE after_authentication]
    /\ UNCHANGED << probe, config, listener, accepted, stream, login_data, req, resp, result, sent,
                    fwdCalls, cache, cacheLock, metrics, metricsLock, certLoads >>

\* how many bytes stream.peek can return
PeekLens(s) == IF Available(s) = << >> THEN {0} ELSE 1..Len(Available(s))

\* b"HTTP/1.1 401 Unauthorized\r\n\r\n"
Unauthorized ==
    [ status |-> 401, body |-> << >>, src |-> "auth", by |-> << 0, 0 >>,
      method |-> "-", uri |-> "-" ]

\* a gate that looks for the username alone
login_accepted_username_only(data) == contains(data, << "u" >>)

\* login_data.contains(username:password)
login_accepted(data) == contains(data, credential)

\* handle_authentication on the raw TcpStream, and the early return of
\* handle_client_connection when it answers false
handle_authentication(c) ==
    /\ pc[c] = "Authenticating"
    /\ \E bytes_read \in PeekLens(stream[c]) :
          /\ login_data' = [login_data EXCEPT ![c] = Prefix(stream[c], bytes_read)]
          /\ IF login_accepted(Prefix(stream[c], bytes_read))
             THEN /\ stream' = [stream EXCEPT ![c] = Drop(@, bytes_read)]
                  /\ pc' = [pc EXCEPT ![c] = after_authentication]
                  /\ UNCHANGED << sent, result, listener >>
             ELSE /\ sent' = [sent EXCEPT ![c] = Append(@, Unauthorized)]
                  /\ Close(c, "Ok")
                  /\ UNCHANGED stream
    /\ UNCHANGED << probe, config, accepted, req, resp, fwdCalls, cache, cacheLock,
                    metrics, metricsLock, certLoads >>

\* create_tls_acceptor: both paths given, both files readable, a key found
create_tls_acceptor(cfg) ==
    cfg.certificate_path = "ok" /\ cfg.private_key_path = "ok"

\* handle_https_connection up to serve_connection: the acceptor is built for
\* this connection, then the handshake runs on what is left of the stream
handle_https_connection(c) ==
    /\ pc[c] = "TLSHandshake"
    /\ certLoads' = certLoads + 1
    /\ IF create_tls_acceptor(config) /\ stream[c] # << >> /\ Head(stream[c]) = "hello"
       THEN /\ stream' = [stream EXCEPT ![c] = Tail(@)]
            /\ pc' = [pc EXCEPT ![c] = "Serving"]
            /\ UNCHANGED << result, listener >>
       ELSE /\ Close(c, "Err")
            /\ UNCHANGED stream
    /\ UNCHANGED << probe, config, accepted, login_data, req, resp, sent, fwdCalls, cache,
                    cacheLock, metrics, metricsLock >>

\* serve_connection reading the next request head (handle_http_connection,
\* and the Ok arm of handle_https_connection); whatever hyper itself writes
\* for a malformed head is not recorded in sent
serve_connection(c) ==
    /\ pc[c] = "Serving"
    /\ LET kind == ParseKind(stream[c]) IN
       IF kind = "request"
       THEN /\ req' = [req EXCEPT ![c] =
                          [ method |-> method_of(stream[c][1]),
                            uri |-> uri_of(stream[c][1]),
                            stored_before |-> cache[uri_of(stream[c][1])].present ]]
            /\ stream' = [stream EXCEPT ![c] = Drop(@, EndAt(@, 2))]
            /\ pc' = [pc EXCEPT ![c] = "RequestParsed"]
            /\ UNCHANGED << result, listener >>
       ELSE /\ Close(c, IF kind = "eof" THEN "Ok" ELSE "Err")
            /\ UNCHANGED << req, stream >>
    /\ UNCHANGED << probe, config, accepted, login_data, resp, sent, fwdCalls, cache, cacheLock,
                    metrics, metricsLock, certLoads >>

\* ----------------------------------------------------------------- handler
\* a cache check that forgets the method
cache_lookup_any_method(cfg, method) == cfg.cache_enabled

\* a cache store that forgets the status
cache_store_any_status(cfg, method, status) == cfg.cache_enabled /\ method = GET

\* the guard of the "Check cache" block
cache_lookup_applies(cfg, method) == cfg.cache_enabled /\ method = GET

\* the guard of the "Cache response" block
cache_store_applies(cfg, method, status) ==
    cfg.cache_enabled /\ method = GET /\ is_success(status)

\* handle_http_request from its entry to the cache check
handle_http_request(c) ==
    /\ pc[c] = "RequestParsed"
    /\ resp' = [resp EXCEPT ![c] = NoResp]
    /\ pc' = [pc EXCEPT ![c] =
                IF cache_lookup_applies(config, req[c].method) THEN "CacheLookup"
                ELSE "Forwarding"]
    /\ UNCHANGED << probe, config, listener, accepted, stream, login_data, req, result, sent,
                    fwdCalls, cache, cacheLock, metrics, metricsLock, certLoads >>

\* state.cache.lock()
lock_cache_for_lookup(c) ==
    /\ pc[c] = "CacheLookup"
    /\ cacheLock = NoOne
    /\ cacheLock' = c
    /\ pc' = [pc EXCEPT ![c] = "CacheGet"]
    /\ UNCHANGED << probe, config, listener, accepted, stream, login_data, req, resp, result, sent,
                    fwdCalls, cache, metrics, metricsLock, certLoads >>

\* cache.get, then state.metrics.lock() with the cache guard still alive
lock_metrics_for_lookup(c) ==
    /\ pc[c] = "CacheGet"
    /\ metricsLock = NoOne
    /\ metricsLock' = c
    /\ pc' = [pc EXCEPT ![c] = "CacheRecord"]
    /\ UNCHANGED << probe, config, listener, accepted, stream, login_data, req, resp, result, sent,
                    fwdCalls, cache, cacheLock, metrics, certLoads >>

\* a lookup that never finds anything
cache_get_always_miss(map, url_string) == NoEntry

\* cache.get(&url_string)
cache_get(map, url_string) == map[url_string]

\* the response built on a cache hit
hit_response(entry) ==
    [ status |-> OK, body |-> entry.body, full |-> << >>, src |-> "cache",
      failure |-> "-", by |-> entry.by ]

\* a lookup whose cache guard outlives the block on a miss
cache_lookup_keeping_guard(c) ==
    /\ pc[c] = "CacheRecord"
    /\ LET entry == cache_get(cache, req[c].uri) IN
       IF entry.present
       THEN /\ metrics' = record_cache_hit(metrics)
            /\ resp' = [resp EXCEPT ![c] = hit_response(entry)]
            /\ pc' = [pc EXCEPT ![c] = "Responding"]
            /\ cacheLock' = NoOne
       ELSE /\ metrics' = record_cache_miss(metrics)
            /\ pc' = [pc EXCEPT ![c] = "Forwarding"]
            /\ UNCHANGED << resp, cacheLock >>
    /\ metricsLock' = NoOne
    /\ UNCHANGED << probe, config, listener, accepted, stream, login_data, req, result, sent,
                    fwdCalls, cache, certLoads >>

\* record_cache_hit and return, or record_cache_miss and fall through; the
\* metrics guard and then the cache guard are dropped
cache_lookup(c) ==
    /\ pc[c] = "CacheRecord"
    /\ LET entry == cache_get(cache, req[c].uri) IN
       IF entry.present
       THEN /\ metrics' = record_cache_hit(metrics)
            /\ resp' = [resp EXCEPT ![c] = hit_response(entry)]
            /\ pc' = [pc EXCEPT ![c] = "Responding"]
       ELSE /\ metrics' = record_cache_miss(metrics)
            /\ pc' = [pc EXCEPT ![c] = "Forwarding"]
            /\ UNCHANGED resp
    /\ metricsLock' = NoOne
    /\ cacheLock' = NoOne
    /\ UNCHANGED << probe, config, listener, accepted, stream, login_data, req, result, sent,
                    fwdCalls, cache, certLoads >>

\* --------------------------------------------------------------- forwarder
\* forward_request returning Err(failure)
HardFailure(failure) ==
    [ ok |-> FALSE,
      resp |-> [NoResp EXCEPT !.src = "error", !.failure = failure] ]

\* the Err arm of the final match: Ok(500 with the error detail in the body)
SyntheticResponse(uri, failure) ==
    [ ok |-> TRUE,
      resp |-> [ status |-> INTERNAL_SERVER_ERROR,
                 body |-> << "Failed to forward request to", uri, failure >>,
                 full |-> << >>, src |-> "synthetic", failure |-> failure,
                 by |-> << 0, 0 >> ] ]

\* the Ok arm of the final match: whatever the origin answered
UpstreamResponses ==
    { [ ok |-> TRUE,
        resp |-> [ status |-> s, body |-> b, full |-> << >>, src |-> "upstream",
                   failure |-> "none", by |-> << 0, 0 >> ] ] :
      s \in Statuses, b \in Bodies }

\* the SOCKS5 arm: every step before send_request leaves through `?`
socks5_outcomes(cfg, uri) ==
    IF ~socks5_target_parses(uri) THEN {HardFailure("target_url")}
    ELSE IF cfg.socks5_address = "unparsable" THEN {HardFailure("relay_address")}
    ELSE {HardFailure("relay_connect"), HardFailure("tunnel"),
          HardFailure("handshake"), SyntheticResponse(uri, "send")}
         \cup UpstreamResponses

\* a direct arm whose connection failure leaves through `?` as well
direct_outcomes_propagating(cfg, uri) ==
    IF ~direct_target_parses(cfg) THEN {HardFailure("target_url")}
    ELSE {HardFailure("connect")} \cup UpstreamResponses

\* the direct arm: only the URL parse leaves through `?`
direct_outcomes(cfg, uri) ==
    IF ~direct_target_parses(cfg) THEN {HardFailure("target_url")}
    ELSE {SyntheticResponse(uri, "connect")} \cup UpstreamResponses

forward_outcomes(cfg, uri) ==
    IF cfg.socks5_address # "None" THEN socks5_outcomes(cfg, uri)
    ELSE direct_outcomes(cfg, uri)

\* forward_request(...).await? in handle_http_request: an Err ends the
\* service call, and hyper drops the connection without a response
forward_request(c) ==
    /\ pc[c] = "Forwarding"
    /\ resp[c].src # "awaiting"
    /\ fwdCalls' = [fwdCalls EXCEPT ![c] = @ + 1]
    /\ \E o \in forward_outcomes(config, req[c].uri) :
          /\ resp' = [resp EXCEPT ![c] = o.resp]
          /\ IF o.ok
             THEN /\ pc' = [pc EXCEPT ![c] = "UpdateMetrics"]
                  /\ UNCHANGED << result, listener >>
             ELSE Close(c, "Err")
    /\ UNCHANGED << probe, config, accepted, stream, login_data, req, sent, cache, cacheLock,
                    metrics, metricsLock, certLoads >>

\* an update block that does not wait for the metrics mutex
lock_metrics_for_update_unguarded(c) ==
    /\ pc[c] = "UpdateMetrics"
    /\ metricsLock' = c
    /\ pc' = [pc EXCEPT ![c] = "RecordRequest"]
    /\ UNCHANGED << probe, config, listener, accepted, stream, login_data, req, resp, result, sent,
                    fwdCalls, cache, cacheLock, metrics, certLoads >>

\* the relay or the origin accepts the forwarder's bytes and then stays silent:
\* the await of the tunnel negotiation, of the handshake or of the response
\* has nothing to complete it, and no timer is armed around forward_request
upstream_never_answers(c) ==
    /\ pc[c] = "Forwarding"
    /\ resp[c].src = "-"
    /\ resp' = [resp EXCEPT ![c].src = "awaiting"]
    /\ UNCHANGED << probe, config, listener, accepted, pc, stream, login_data, req, result,
                    sent, fwdCalls, cache, cacheLock, metrics, metricsLock, certLoads >>

\* state.metrics.lock() of the "Update Metrics" block
lock_metrics_for_update(c) ==
    /\ pc[c] = "UpdateMetrics"
    /\ metricsLock = NoOne
    /\ metricsLock' = c
    /\ pc' = [pc EXCEPT ![c] = "RecordRequest"]
    /\ UNCHANGED << probe, config, listener, accepted, stream, login_data, req, resp, result, sent,
                    fwdCalls, cache, cacheLock, metrics, certLoads >>

\* a block that records a non-2xx response as an error and not as a request
updated_metrics_error_only(m, duration, status) ==
    IF is_success(status) THEN record_request(m, duration)
    ELSE record_error(m, status)

\* what the block does to the metrics
updated_metrics(m, duration, status) ==
    IF is_success(status) THEN record_request(m, duration)
    ELSE record_error(record_request(m, duration), status)

\* record_request, record_error for a non-2xx status, guard dropped
update_metrics(c) ==
    /\ pc[c] = "RecordRequest"
    /\ \E duration \in Durations :
          metrics' = updated_metrics(metrics, duration, resp[c].status)
    /\ metricsLock' = NoOne
    /\ pc' = [pc EXCEPT ![c] =
                IF cache_store_applies(config, req[c].method, resp[c].status)
                THEN "ReadBody" ELSE "Responding"]
    /\ UNCHANGED << probe, config, listener, accepted, stream, login_data, req, resp, result, sent,
                    fwdCalls, cache, cacheLock, certLoads >>

\* to_bytes(forward_response.body_mut()): the body is read out of the
\* response it belongs to; an error leaves whatever was not yet read
to_bytes(c) ==
    /\ pc[c] = "ReadBody"
    /\ \/ /\ resp' = [resp EXCEPT ![c].full = resp[c].body, ![c].body = << >>]
          /\ pc' = [pc EXCEPT ![c] = "CacheInsert"]
       \/ /\ \E rest \in Suffixes(resp[c].body) :
                resp' = [resp EXCEPT ![c].body = rest]
          /\ pc' = [pc EXCEPT ![c] = "Responding"]
    /\ UNCHANGED << probe, config, listener, accepted, stream, login_data, req, result, sent,
                    fwdCalls, cache, cacheLock, metrics, metricsLock, certLoads >>

\* state.cache.lock() of the Ok arm
lock_cache_for_insert(c) ==
    /\ pc[c] = "CacheInsert"
    /\ cacheLock = NoOne
    /\ cacheLock' = c
    /\ pc' = [pc EXCEPT ![c] = "CacheStore"]
    /\ UNCHANGED << probe, config, listener, accepted, stream, login_data, req, resp, result, sent,
                    fwdCalls, cache, metrics, metricsLock, certLoads >>

\* cache.insert(url_string, full_response.to_vec()), guard dropped
cache_insert(c) ==
    /\ pc[c] = "CacheStore"
    /\ cache' = [cache EXCEPT ![req[c].uri] =
                    [ present |-> TRUE, body |-> resp[c].full,
                      by |-> << c, Len(sent[c]) + 1 >> ]]
    /\ cacheLock' = NoOne
    /\ pc' = [pc EXCEPT ![c] = "Responding"]
    /\ UNCHANGED << probe, config, listener, accepted, stream, login_data, req, resp, result, sent,
                    fwdCalls, metrics, metricsLock, certLoads >>

\* Ok(response_to_client): hyper writes it and reads the next request
respond(c) ==
    /\ pc[c] = "Responding"
    /\ sent' = [sent EXCEPT ![c] =
                  Append(@, [ status |-> resp[c].status, body |-> resp[c].body,
                              src |-> resp[c].src, by |-> resp[c].by,
                              method |-> req[c].method, uri |-> req[c].uri ])]
    /\ pc' = [pc EXCEPT ![c] = "Serving"]
    /\ UNCHANGED << probe, config, listener, accepted, stream, login_data, req, resp, result,
                    fwdCalls, cache, cacheLock, metrics, metricsLock, certLoads >>

\* ------------------------------------------------------- background tasks
\* the /metrics route of the dashboard: state.metrics.lock()
metrics_route_lock ==
    /\ listener = "bound"
    /\ metricsLock = NoOne
    /\ metricsLock' = Dashboard
    /\ UNCHANGED << probe, config, listener, accepted, conn_vars, cache, cacheLock,
                    metrics, certLoads >>

\* the route formats the page and returns it: the guard is dropped
metrics_route_reply ==
    /\ metricsLock = Dashboard
    /\ metricsLock' = NoOne
    /\ UNCHANGED << probe, config, listener, accepted, conn_vars, cache, cacheLock,
                    metrics, certLoads >>

\* metrics_update_task after a tick: metrics.lock()
metrics_update_task_lock ==
    /\ listener = "bound"
    /\ metricsLock = NoOne
    /\ metricsLock' = Logger
    /\ UNCHANGED << probe, config, listener, accepted, conn_vars, cache, cacheLock,
                    metrics, certLoads >>

\* a log task whose guard outlives the loop body
metrics_update_task_log_keeping_guard ==
    /\ metricsLock = Logger
    /\ UNCHANGED vars

\* the task logs the metrics; the guard is dropped at the end of the loop
\* body, before the next interval.tick().await
metrics_update_task_log ==
    /\ metricsLock = Logger
    /\ metricsLock' = NoOne
    /\ UNCHANGED << probe, config, listener, accepted, conn_vars, cache, cacheLock,
                    metrics, certLoads >>

\* ----------------------------------------------------------- specification
Next ==
    \/ start_proxy_server
    \/ accept
    \/ \E c \in Conns : handle_client_connection(c)
    \/ \E c \in Conns : handle_authentication(c)
    \/ \E c \in Conns : handle_https_connection(c)
    \/ \E c \in Conns : serve_connection(c)
    \/ \E c \in Conns : handle_http_request(c)
    \/ \E c \in Conns : lock_cache_for_lookup(c)
    \/ \E c \in Conns : lock_metrics_for_lookup(c)
    \/ \E c \in Conns : cache_lookup(c)
    \/ \E c \in Conns : forward_request(c)
    \/ \E c \in Conns : upstream_never_answers(c)
    \/ \E c \in Conns : lock_metrics_for_update(c)
    \/ \E c \in Conns : update_metrics(c)
    \/ \E c \in Conns : to_bytes(c)
    \/ \E c \in Conns : lock_cache_for_insert(c)
    \/ \E c \in Conns : cache_insert(c)
    \/ \E c \in Conns : respond(c)
    \/ metrics_route_lock
    \/ metrics_route_reply
    \/ metrics_update_task_lock
    \/ metrics_update_task_log

Spec == Init /\ [][Next]_vars

\* ------------------------------------------------- forwarder, URL handling
\* A URL text is a sequence of atoms: the punctuation ":", "//", "/", "?",
\* names ("http", "example.com", "p", ...) and digit strings ("80", "8080").
\* Adjacent names read as one run of characters.
SchemeNames == {"http", "https", "ftp"}
HostNames == {"example.com", "h"}
PortDigits == {"80", "8080"}
PathTexts == { << "/" >>, << "/", "p" >>, << "/", "p", "?", "q" >>,
               << "/", "http", ":", "//", "p" >> }

\* the request targets hyper hands over: origin-form (scheme "-") and
\* absolute-form, as the components of http::Uri
RequestTargets ==
    [ scheme : {"-"}, host : {"-"}, port : {"-"}, path : PathTexts ]
    \cup [ scheme : SchemeNames, host : HostNames, port : PortDigits \cup {"-"},
           path : PathTexts ]

\* parts.uri.to_string()
uri_to_string(t) ==
    IF t.scheme = "-" THEN t.path
    ELSE << t.scheme, ":", "//", t.host >>
         \o (IF t.port = "-" THEN << >> ELSE << ":", t.port >>) \o t.path

\* config.target_address: None, or an origin with or without a port
TargetAddresses ==
    { << >>, << "http", ":", "//", "origin.test" >>,
      << "http", ":", "//", "origin.test", ":", "8080" >> }

\* str::starts_with
starts_with(s, pat) == Len(pat) <= Len(s) /\ Prefix(s, Len(pat)) = pat

\* str::replace: every occurrence, left to right
RECURSIVE replace(_, _, _)
replace(s, from, to) ==
    IF s = << >> THEN << >>
    ELSE IF starts_with(s, from) THEN to \o replace(Drop(s, Len(from)), from, to)
    ELSE << Head(s) >> \o replace(Tail(s), from, to)

\* Url::from_str returning Err
UrlError == [ ok |-> FALSE, scheme |-> "-", host |-> << >>, port |-> "-", path |-> << >> ]

\* the slashes a special-scheme URL may carry before its authority
RECURSIVE skip_slashes(_)
skip_slashes(s) ==
    IF s # << >> /\ Head(s) \in {"/", "//"} THEN skip_slashes(Tail(s)) ELSE s

\* the host runs up to the next ":", "/" or "?"
RECURSIVE host_text(_)
host_text(s) ==
    IF s = << >> \/ Head(s) \in {":", "/", "//", "?"} THEN << >>
    ELSE << Head(s) >> \o host_text(Tail(s))

\* the port a scheme implies, which Url::port() reports as None
default_port(scheme) ==
    IF scheme = "http" THEN "80" ELSE IF scheme = "https" THEN "443" ELSE "21"

\* Url::from_str for a special scheme: scheme, ":", any slashes, a non-empty
\* host, an optional ":" with optional digits, then the path
Url_from_str(input) ==
    IF Len(input) < 2 \/ input[1] \notin SchemeNames \/ input[2] # ":" THEN UrlError
    ELSE LET authority == skip_slashes(Drop(input, 2))
             host == host_text(authority)
             rest == Drop(authority, Len(host))
             colon == rest # << >> /\ Head(rest) = ":"
             digits == IF colon /\ Len(rest) >= 2 /\ rest[2] \in PortDigits
                       THEN rest[2] ELSE "-"
             path == Drop(rest, (IF colon THEN 1 ELSE 0)
                                + (IF digits = "-" THEN 0 ELSE 1))
         IN  IF host = << >> THEN UrlError
             ELSE IF path # << >> /\ Head(path) \notin {"/", "//", "?"} THEN UrlError
             ELSE [ ok |-> TRUE, scheme |-> input[1], host |-> host,
                    port |-> IF digits = default_port(input[1]) THEN "-" ELSE digits,
                    path |-> IF path = << >> THEN << "/" >> ELSE path ]

\* Url::to_string
url_to_string(url) ==
    << url.scheme, ":", "//" >> \o url.host
    \o (IF url.port = "-" THEN << >> ELSE << ":", url.port >>) \o url.path

\* forward_request left through `?` before anything was sent
NoOutgoing == [ ok |-> FALSE, connect |-> << >>, Host |-> << >>, uri |-> << >> ]

\* a SOCKS5 arm that strips nothing
socks5_request_unstripped(uri) ==
    LET url == Url_from_str(<< "http", ":", "//" >> \o uri)
    IN  IF ~url.ok THEN NoOutgoing
        ELSE [ ok |-> TRUE,
               connect |-> << url.host, IF url.port = "-" THEN "80" ELSE url.port >>,
               Host |-> url.host,
               uri |-> uri ]

\* the SOCKS5 arm: where the tunnel is negotiated to, the Host header and
\* the request target of the request sent through it
socks5_request(uri) ==
    LET uri_string ==
            IF starts_with(uri, << "http", ":", "//" >>)
            THEN replace(uri, << "http", ":", "//" >>, << >>)
            ELSE IF starts_with(uri, << "https", ":", "//" >>)
            THEN replace(uri, << "https", ":", "//" >>, << >>)
            ELSE uri
        url == Url_from_str(<< "http", ":", "//" >> \o uri_string)
    IN  IF ~url.ok THEN NoOutgoing
        ELSE [ ok |-> TRUE,
               connect |-> << url.host, IF url.port = "-" THEN "80" ELSE url.port >>,
               Host |-> url.host,
               uri |-> uri ]

\* the direct arm: the Host header and the request target of the request
\* given to the pooled client, which connects to wherever that URL points
direct_request(target_address, uri) ==
    LET target_host == IF target_address = << >>
                       THEN << "http", ":", "//", "localhost" >>
                       ELSE target_address
        target_url == target_host \o uri
        url == Url_from_str(target_url)
    IN  IF ~url.ok THEN NoOutgoing
        ELSE [ ok |-> TRUE,
               connect |-> << url.host, IF url.port = "-" THEN "80" ELSE url.port >>,
               Host |-> url.host,
               uri |-> url_to_string(url) ]

\* ProxyConfig::default()
ProxyConfig_default ==
    [ authentication |-> FALSE, cache_enabled |-> TRUE, socks5_address |-> "None",
      target_address |-> "None", https_enabled |-> FALSE,
      certificate_path |-> "None", private_key_path |-> "None" ]

\* the server constructed from the default configuration and not yet started
ServerIdle ==
    /\ config = ProxyConfig_default
    /\ listener = "starting"
    /\ accepted = 0
    /\ pc = [c \in Conns |-> "idle"]
    /\ stream = [c \in Conns |-> << >>]
    /\ login_data = [c \in Conns |-> << >>]
    /\ req = [c \in Conns |-> NoReq]
    /\ resp = [c \in Conns |-> NoResp]
    /\ result = [c \in Conns |-> "-"]
    /\ cache = [u \in Uris |-> NoEntry]
    /\ cacheLock = NoOne
    /\ metrics = Metrics_default
    /\ metricsLock = NoOne
    /\ sent = [c \in Conns |-> << >>]
    /\ fwdCalls = [c \in Conns |-> 0]
    /\ certLoads = 0

\* forward_request examined on its own: a request target and a target
\* address are chosen, then one of the two arms builds the outgoing request
InitForwarder ==
    /\ ServerIdle
    /\ probe \in [ call : {"none"}, target : RequestTargets,
                   target_address : TargetAddresses, outgoing : {NoOutgoing} ]

forward_via_socks5 ==
    /\ probe.call = "none"
    /\ probe' = [probe EXCEPT !.call = "socks5",
                              !.outgoing = socks5_request(uri_to_string(probe.target))]
    /\ UNCHANGED server_vars

forward_direct ==
    /\ probe.call = "none"
    /\ probe' = [probe EXCEPT !.call = "direct",
                              !.outgoing = direct_request(probe.target_address,
                                                          uri_to_string(probe.target))]
    /\ UNCHANGED server_vars

NextForwarder == forward_via_socks5 \/ forward_direct

SpecForwarder == InitForwarder /\ [][NextForwarder]_vars

\* --------------------------------------------- metrics sink, average time
\* The sink examined on its own holds the samples of metrics.response_times
\* behind `earlier` samples of zero duration recorded before them.  A sample
\* count is written << high, low >> in base LIMB; durations are nanoseconds.
SampleDurations == {0, 1, 4}

\* sample counts of a sink that is new, and of one that has run for long
EarlierSamples == { << 0, 0 >>, << LIMB - 1, LIMB - 2 >>, << LIMB - 1, LIMB - 1 >> }

\* self.response_times.len()
vec_len(earlier, m) ==
    LET low == earlier[2] + Len(m.response_times)
    IN  << earlier[1] + (low \div LIMB), low % LIMB >>

\* len as u32: the low 32 bits
as_u32(len) == << len[1] % LIMB, len[2] >>

\* self.response_times.iter().sum()
RECURSIVE iter_sum(_)
iter_sum(times) == IF times = << >> THEN 0 ELSE Head(times) + iter_sum(Tail(times))

\* get_average_response_time: zero when empty, else the sum divided by the
\* cast length; Duration / 0 panics.  The sum stays below LIMB here, so a
\* divisor with a high digit gives zero.
get_average_response_time(earlier, m) ==
    IF vec_len(earlier, m) = << 0, 0 >>
    THEN [ asked |-> TRUE, panic |-> FALSE, value |-> 0 ]
    ELSE LET sum == iter_sum(m.response_times)
             divisor == as_u32(vec_len(earlier, m))
         IN  IF divisor = << 0, 0 >>
             THEN [ asked |-> TRUE, panic |-> TRUE, value |-> 0 ]
             ELSE [ asked |-> TRUE, panic |-> FALSE,
                    value |-> IF divisor[1] > 0 THEN 0 ELSE sum \div divisor[2] ]

\* the average has not been asked for since the last sample
NotAsked == [ asked |-> FALSE, panic |-> FALSE, value |-> 0 ]

InitAverage ==
    /\ ServerIdle
    /\ probe \in [ earlier : EarlierSamples, average : {NotAsked} ]

\* metrics.record_request(duration)
record_request_call ==
    /\ Len(metrics.response_times) < MaxSamples
    /\ \E duration \in SampleDurations : metrics' = record_request(metrics, duration)
    /\ probe' = [probe EXCEPT !.average = NotAsked]
    /\ UNCHANGED << config, listener, accepted, pc, stream, login_data, req, resp, result,
                    cache, cacheLock, metricsLock, sent, fwdCalls, certLoads >>

\* the /metrics route formats metrics.get_average_response_time()
metrics_route ==
    /\ ~probe.average.asked
    /\ probe' = [probe EXCEPT !.average = get_average_response_time(probe.earlier, metrics)]
    /\ UNCHANGED server_vars

NextAverage == record_request_call \/ metrics_route

SpecAverage == InitAverage /\ [][NextAverage]_vars

\* ------------------------------------------------------------------ claims
\* positions of a connection that is inside handle_http_request
HandlerStates ==
    {"RequestParsed", "CacheLookup", "CacheGet", "CacheRecord", "Forwarding",
     "UpdateMetrics", "RecordRequest", "ReadBody", "CacheInsert", "CacheStore",
     "Responding"}

\* positions in which the cache is read or written
CacheStates ==
    {"CacheLookup", "CacheGet", "CacheRecord", "ReadBody", "CacheInsert",
     "CacheStore"}

\* positions reached only through a forwarder call of the current request
ForwardedStates ==
    {"Forwarding", "UpdateMetrics", "RecordRequest", "ReadBody", "CacheInsert",
     "CacheStore"}

\* the connection whose task takes the step
Acts(c) == pc'[c] # pc[c]

\* C1: the body a cache hit returns equals the body that was returned to the
\* client by the request that stored the entry.
C1_HitBodyEqualsFirstBody ==
    \A c \in Conns : \A i \in 1..Len(sent[c]) :
        LET hit == sent[c][i] IN
        (hit.src = "cache" /\ Len(sent[hit.by[1]]) >= hit.by[2])
            => sent[hit.by[1]][hit.by[2]].body = hit.body

\* C2: with authentication enabled, a connection whose peeked bytes do not
\* contain username:password is sent the 401 literal and nothing else, is
\* closed, and has made no forwarder call.
C2_RejectedLoginGets401Only ==
    \A c \in Conns :
        ( /\ config.authentication
          /\ pc[c] \notin {"idle", "Accepted", "Authenticating"}
          /\ ~contains(login_data[c], credential) )
        => /\ pc[c] = "Closed"
           /\ sent[c] = << Unauthorized >>
           /\ fwdCalls[c] = 0

C2_Witness ==
    \E c \in Conns :
        /\ config.authentication
        /\ pc[c] = "Closed"
        /\ login_data[c] # << >>
        /\ ~contains(login_data[c], credential)
        /\ sent[c] = << Unauthorized >>

\* C3: a step of a request whose method is not GET leaves the cache, cache_hits
\* and cache_misses unchanged, never enters a cache position, and goes from
\* RequestParsed straight to Forwarding, whatever cache_enabled is.
C3_NonGetBypassesCache ==
    [][ \A c \in Conns :
          (pc[c] \in HandlerStates /\ req[c].method # GET /\ Acts(c))
          => /\ cache' = cache
             /\ metrics'.cache_hits = metrics.cache_hits
             /\ metrics'.cache_misses = metrics.cache_misses
             /\ pc'[c] \notin CacheStates
             /\ (pc[c] = "RequestParsed" => pc'[c] = "Forwarding") ]_vars

C3_Witness ==
    \E c \in Conns : \E i \in 1..Len(sent[c]) :
        /\ config.cache_enabled
        /\ sent[c][i].method = POST
        /\ sent[c][i].src = "upstream"

\* C4: the cache changes only in the insert of a GET request handled with
\* caching enabled whose upstream response was 2xx; the entry is the body
\* read from that response.
C4_OnlySuccessfulGetStored ==
    [][ \A u \in Uris :
          cache'[u] # cache[u]
          => \E c \in Conns :
                /\ pc[c] = "CacheStore"
                /\ Acts(c)
                /\ req[c].uri = u
                /\ req[c].method = GET
                /\ config.cache_enabled
                /\ resp[c].src = "upstream"
                /\ is_success(resp[c].status)
                /\ cache'[u].present
                /\ cache'[u].body = resp[c].full ]_vars

C4_Witness ==
    \E u \in Uris : \E c \in Conns : \E i \in 1..Len(sent[c]) :
        /\ cache[u].present
        /\ sent[c][i].method = GET
        /\ sent[c][i].src = "upstream"
        /\ ~is_success(sent[c][i].status)
        /\ ~cache[sent[c][i].uri].present

\* C5: with caching enabled, a GET that arrives when its key is already stored
\* is answered from the cache and never reaches the forwarder.
C5_StoredKeyServedFromCache ==
    \A c \in Conns :
        ( /\ config.cache_enabled
          /\ pc[c] \in HandlerStates
          /\ req[c].method = GET
          /\ req[c].stored_before )
        => /\ pc[c] \notin ForwardedStates
           /\ (pc[c] = "Responding" => resp[c].src = "cache")

C5_Witness ==
    \E c \in Conns :
        /\ pc[c] = "Responding"
        /\ req[c].stored_before
        /\ resp[c].src = "cache"

\* C6: with TLS enabled and a missing or unusable certificate or key, the
\* listener never binds and no connection is accepted; the certificate and
\* key are never loaded in a connection task.
C6_TlsConfigFailsFast ==
    /\ (config.https_enabled /\ ~create_tls_acceptor(config))
          => (listener # "bound" /\ accepted = 0)
    /\ certLoads = 0

\* C7: in the SOCKS5 strategy every forwarding failure (target, relay address,
\* relay connect, tunnel, handshake, send) becomes a synthesized error
\* response; none closes the connection without a response.
C7_Socks5FailureSynthesized ==
    \A c \in Conns :
        (config.socks5_address # "None" /\ resp[c].failure \notin {"-", "none"})
        => resp[c].src = "synthetic"

\* C8 as claimed: in the direct strategy a failed connection to the origin
\* yields, as a success value, a synthetic response with status 502 whose body
\* embeds the error detail.
C8_DirectFailureIs502 ==
    \A c \in Conns :
        (config.socks5_address = "None" /\ resp[c].failure = "connect")
        => /\ resp[c].src = "synthetic"
           /\ resp[c].status = 502
           /\ contains(resp[c].body, << "connect" >>)

\* C8 as amended: in the direct strategy a failed connection to the origin
\* yields, as a success value, a synthetic response with status 500 whose body
\* embeds the error detail, and the connection goes on to answer with it.
C8_DirectFailureIs500 ==
    \A c \in Conns :
        (config.socks5_address = "None" /\ resp[c].failure = "connect")
        => /\ resp[c].src = "synthetic"
           /\ resp[c].status = INTERNAL_SERVER_ERROR
           /\ contains(resp[c].body, << "connect" >>)
           /\ pc[c] \in {"UpdateMetrics", "RecordRequest", "Responding"}
                 \/ (sent[c] # << >> /\ sent[c][Len(sent[c])].src = "synthetic")

C8_Witness ==
    \E c \in Conns :
        /\ config.socks5_address = "None"
        /\ resp[c].failure = "connect"
        /\ sent[c] # << >>
        /\ sent[c][Len(sent[c])].status = INTERNAL_SERVER_ERROR

\* C9: in both strategies a request whose forwarding failed has been answered
\* with one error response by the time its handling is over, and the error
\* count of that response's status has been incremented.
C9_FailureAnsweredAndCounted ==
    \A c \in Conns :
        (resp[c].failure \notin {"-", "none"} /\ pc[c] \in {"Serving", "Closed"})
        => /\ sent[c] # << >>
           /\ sent[c][Len(sent[c])].src = "synthetic"
           /\ metrics.error_counts[sent[c][Len(sent[c])].status] >= 1

\* C10: a connection task that ends, with an error or without, leaves the
\* listener accepting, leaves every other connection's pipeline as it was, and
\* leaves no lock behind that another pipeline would wait for.
C10_ErrorsContained ==
    [][ \A c \in Conns :
          (pc[c] # "Closed" /\ pc'[c] = "Closed")
          => /\ listener' = "bound"
             /\ accepted' = accepted
             /\ cacheLock' # c /\ metricsLock' # c
             /\ cache' = cache /\ metrics' = metrics
             /\ \A d \in Conns \ {c} :
                   /\ pc'[d] = pc[d]
                   /\ stream'[d] = stream[d]
                   /\ req'[d] = req[d]
                   /\ resp'[d] = resp[d]
                   /\ result'[d] = result[d]
                   /\ sent'[d] = sent[d] ]_vars

C10_Witness ==
    \E c, d \in Conns :
        /\ c # d
        /\ result[c] = "Err"
        /\ listener = "bound"
        /\ pc[d] = "Closed" /\ result[d] = "Ok"
        /\ sent[d] # << >> /\ sent[d][Len(sent[d])].src = "upstream"

\* positions in which the task waits on the network: the peek of the login
\* bytes, the TLS handshake, hyper reading a request, the forwarder, the read
\* of the upstream body, the write of the response
NetworkStates ==
    {"Authenticating", "TLSHandshake", "Serving", "Forwarding", "ReadBody",
     "Responding"}

\* C11: a connection that is in a network step (reading the request, waiting
\* on the forwarder, reading the upstream body, writing the response) holds
\* neither the cache lock nor the metrics lock.
C11_NoLockAcrossNetwork ==
    \A c \in Conns :
        pc[c] \in NetworkStates => cacheLock # c /\ metricsLock # c

\* a connection waits on the forwarder after its lookup missed, while the
\* other connection holds both locks for its own lookup
C11_Witness ==
    \E c, d \in Conns :
        /\ c # d
        /\ pc[c] = "Forwarding"
        /\ cache_lookup_applies(config, req[c].method)
        /\ cacheLock = d
        /\ metricsLock = d

\* every pipeline has finished
Quiescent == \A c \in Conns : pc[c] \in {"idle", "Closed"}

\* the responses written so far, as (connection, index) pairs
Responses == UNION { { << c, i >> : i \in DOMAIN sent[c] } : c \in Conns }

\* the response written as the i-th of connection c
SentAt(r) == sent[r[1]][r[2]]

\* responses that came out of a completed forwarder call
ForwardedResponses ==
    { r \in Responses : SentAt(r).src \in {"upstream", "synthetic"} }

\* connections whose last forwarder call returned Err
HardFailed == { c \in Conns : pc[c] = "Closed" /\ resp[c].src = "error" }

\* positions inside a critical section of the metrics mutex, of the cache mutex
MetricsSections == {"CacheRecord", "RecordRequest"}
CacheSections == {"CacheGet", "CacheRecord", "CacheStore"}

\* C12: no metrics or cache update is lost under any interleaving. The two
\* mutexes serialise the updates (at most one pipeline is inside a critical
\* section, and it is the holder), and once all pipelines have finished
\* total_requests is the number of completed forwarder calls, cache_hits and
\* cache_misses are the numbers of lookups that hit and that missed, each error
\* count is the number of forwarded responses with that status, and every
\* cache entry holds a whole body written by one pipeline.
C12_NoLostUpdate ==
    /\ \A c \in Conns : (metricsLock = c) <=> (pc[c] \in MetricsSections)
    /\ \A c \in Conns : (cacheLock = c) <=> (pc[c] \in CacheSections)
    /\ Quiescent =>
          /\ metrics.total_requests = Cardinality(ForwardedResponses)
          /\ metrics.cache_hits =
                Cardinality({ r \in Responses : SentAt(r).src = "cache" })
          /\ metrics.cache_misses =
                IF config.cache_enabled
                THEN Cardinality({ r \in ForwardedResponses : SentAt(r).method = GET })
                     + Cardinality({ c \in HardFailed : req[c].method = GET })
                ELSE 0
          /\ \A s \in ErrorStatuses :
                metrics.error_counts[s] =
                  Cardinality({ r \in ForwardedResponses : SentAt(r).status = s })
          /\ \A r \in Responses :
                SentAt(r).src = "cache" => cache[SentAt(r).uri].present
          /\ \A u \in Uris :
                cache[u].present =>
                  /\ cache[u].by \in Responses
                  /\ SentAt(cache[u].by).src = "upstream"
                  /\ SentAt(cache[u].by).uri = u
                  /\ cache[u].body \in Bodies

\* all pipelines have finished after a forwarded error response, a miss that
\* stored and a hit, issued by two connections
C12_Witness ==
    /\ Quiescent
    /\ \A c \in Conns : sent[c] # << >>
    /\ metrics.total_requests >= 2
    /\ metrics.cache_hits >= 1
    /\ metrics.cache_misses >= 1
    /\ \E s \in ErrorStatuses : metrics.error_counts[s] >= 1
    /\ \E u \in Uris : cache[u].present

\* the credential gate never ran for the connection and it was sent no 401
Ungated(c) ==
    /\ pc[c] # "Authenticating"
    /\ login_data[c] = << >>
    /\ \A i \in DOMAIN sent[c] : sent[c][i].status # 401

\* the connection has parsed a request and is no longer handling it
Handled(c) == req[c] # NoReq /\ pc[c] \notin HandlerStates

\* C13 as stated: with authentication disabled no connection meets the
\* credential gate, no 401 is written, and every parsed request reaches the
\* forwarding stage.
C13_EveryRequestForwarded ==
    ~config.authentication =>
        \A c \in Conns :
            /\ Ungated(c)
            /\ Handled(c) => resp[c].src \in {"upstream", "synthetic", "error"}

\* C13 as amended: with authentication disabled no connection meets the
\* credential gate, no 401 is written, and every parsed request reaches the
\* request handler, which forwards it exactly once unless it is a GET that the
\* enabled cache answers.
C13_EveryRequestHandled ==
    ~config.authentication =>
        \A c \in Conns :
            /\ Ungated(c)
            /\ Handled(c) =>
                  /\ resp[c].src \in {"upstream", "synthetic", "error", "cache"}
                  /\ resp[c].src = "cache" =>
                        cache_lookup_applies(config, req[c].method)
                  /\ fwdCalls[c] =
                        Cardinality({ i \in DOMAIN sent[c] : sent[c][i].src # "cache" })
                        + (IF c \in HardFailed THEN 1 ELSE 0)

\* with authentication disabled a connection was answered once by the
\* forwarder and once from the cache
C13_Witness ==
    /\ ~config.authentication
    /\ \E c \in Conns :
          /\ Handled(c)
          /\ fwdCalls[c] = 1
          /\ Len(sent[c]) = 2
          /\ \E i \in DOMAIN sent[c] : sent[c][i].src = "cache"

\* the tunnel target and Host header C14 names for an absolute-form target
Socks5Expected(t) ==
    /\ probe.outgoing.ok
    /\ probe.outgoing.connect = << << t.host >>, IF t.port = "-" THEN "80" ELSE t.port >>
    /\ probe.outgoing.Host = << t.host >>

\* C14 as stated: in the SOCKS5 strategy, for every target
\* scheme://host[:port]/path the scheme prefix is stripped, the tunnel goes to
\* (host, port or 80) and the outgoing Host header is host.
C14_Socks5AnyScheme ==
    (probe.call = "socks5" /\ probe.target.scheme # "-")
        => Socks5Expected(probe.target)

\* C14 as amended: the same for targets whose scheme is http or https, the
\* two prefixes the code strips.
C14_Socks5HttpSchemes ==
    (probe.call = "socks5" /\ probe.target.scheme \in {"http", "https"})
        => Socks5Expected(probe.target)

\* the scenario of the claim, http://example.com/p, went through the SOCKS5
\* arm: tunnel to example.com:80, Host example.com
C14_Witness ==
    /\ probe.call = "socks5"
    /\ uri_to_string(probe.target) = << "http", ":", "//", "example.com", "/", "p" >>
    /\ probe.outgoing.connect = << << "example.com" >>, "80" >>
    /\ probe.outgoing.Host = << "example.com" >>

\* the origin the direct strategy is configured with
OriginOf(target_address) ==
    IF target_address = << >> THEN << "http", ":", "//", "localhost" >>
    ELSE target_address

\* C20: in the direct strategy the outgoing URL is target_address (or the
\* default origin) followed by only the path and query of the client's request
\* target, and the outgoing Host header is the host of that origin, for
\* origin-form and absolute-form targets alike.
C20_DirectUsesPathAndQuery ==
    probe.call = "direct" =>
        /\ probe.outgoing.ok
        /\ probe.outgoing.uri = OriginOf(probe.target_address) \o probe.target.path
        /\ probe.outgoing.Host = << OriginOf(probe.target_address)[4] >>

\* C15: get_average_response_time returns zero when no request was recorded
\* and otherwise the sum of the recorded durations divided by their count,
\* and it never fails, whatever sequence of record_request calls came before.
C15_AverageNeverFails ==
    probe.average.asked =>
        /\ ~probe.average.panic
        /\ vec_len(probe.earlier, metrics) = << 0, 0 >> => probe.average.value = 0
        /\ (probe.earlier = << 0, 0 >> /\ metrics.response_times # << >>)
              => probe.average.value =
                   iter_sum(metrics.response_times) \div Len(metrics.response_times)

\* the stage C16 puts after Accepted
StageAfterAccepted ==
    IF config.https_enabled THEN "TLSHandshake"
    ELSE IF config.authentication THEN "Authenticating" ELSE "Serving"

\* the stage C16 puts after the TLS handshake
StageAfterHandshake ==
    IF config.authentication THEN "Authenticating" ELSE "Serving"

\* C16: a connection goes from Accepted to the TLS handshake when TLS is
\* enabled, then to the credential check when authentication is enabled, then
\* to request parsing; with both enabled the credential check starts only
\* after the handshake, on the decrypted stream.
C16_TlsBeforeCredentialCheck ==
    [][\A c \in Conns :
          /\ (pc[c] = "Accepted" /\ Acts(c)) => pc'[c] = StageAfterAccepted
          /\ (pc[c] = "TLSHandshake" /\ Acts(c))
                => pc'[c] \in {StageAfterHandshake, "Closed"}
          /\ (pc[c] = "Authenticating" /\ Acts(c)) => pc'[c] \in {"Serving", "Closed"}
      ]_vars

\* C17: a credential check that accepts is non-destructive: the bytes it
\* inspected are still unread afterwards, so a request line among them is
\* parsed by the request loop.
C17_AcceptedLoginLeavesBytes ==
    [][\A c \in Conns :
          (pc[c] = "Authenticating" /\ pc'[c] \notin {"Authenticating", "Closed"})
              => stream'[c] = stream[c]
      ]_vars

\* the responses written by the request handler, from the cache or forwarded
HandlerResponses ==
    { r \in Responses : SentAt(r).src \in {"cache", "upstream", "synthetic"} }

\* C18: every request that completes with a response to the client, served
\* from the cache or forwarded, has incremented total_requests by one and
\* added one latency sample.
C18_EveryResponseCounted ==
    /\ Cardinality(HandlerResponses) <= metrics.total_requests
    /\ Cardinality(HandlerResponses) <= Len(metrics.response_times)
    /\ Quiescent =>
          /\ metrics.total_requests = Cardinality(HandlerResponses)
          /\ Len(metrics.response_times) = Cardinality(HandlerResponses)

\* a step of connection c's task
TaskStep(c) ==
    \/ handle_client_connection(c)
    \/ handle_authentication(c)
    \/ handle_https_connection(c)
    \/ serve_connection(c)
    \/ handle_http_request(c)
    \/ lock_cache_for_lookup(c)
    \/ lock_metrics_for_lookup(c)
    \/ cache_lookup(c)
    \/ forward_request(c)
    \/ lock_metrics_for_update(c)
    \/ update_metrics(c)
    \/ to_bytes(c)
    \/ lock_cache_for_insert(c)
    \/ cache_insert(c)
    \/ respond(c)

\* C19: every accepted connection goes on to Closed from whichever state it
\* is in: a connection that is not closed can take a step, or waits for a
\* mutex whose holder (another connection, the dashboard or the log task) can;
\* in particular it does not stay in Forwarding when the upstream never
\* completes.
C19_NoConnectionHangs ==
    \A c \in Conns :
        pc[c] \notin {"idle", "Closed"} =>
            \/ ENABLED TaskStep(c)
            \/ \E d \in Conns \ {c} :
                  /\ cacheLock = d \/ metricsLock = d
                  /\ ENABLED TaskStep(d)
            \/ /\ metricsLock = Dashboard
               /\ ENABLED metrics_route_reply
            \/ /\ metricsLock = Logger
               /\ ENABLED metrics_update_task_log

\* C21: the metrics are monotonic: no step of any connection (or of anything
\* else) decreases or resets total_requests, cache_hits, cache_misses, an
\* error count or the number of latency samples.
C21_MetricsMonotonic ==
    [][ /\ metrics'.total_requests >= metrics.total_requests
        /\ metrics'.cache_hits >= metrics.cache_hits
        /\ metrics'.cache_misses >= metrics.cache_misses
        /\ \A s \in ErrorStatuses :
              metrics'.error_counts[s] >= metrics.error_counts[s]
        /\ Len(metrics'.response_times) >= Len(metrics.response_times)
        /\ Prefix(metrics'.response_times, Len(metrics.response_times))
              = metrics.response_times ]_vars

\* three requests were recorded, by two connections, one of them an error,
\* after a lookup that missed
C21_Witness ==
    /\ Len(metrics.response_times) >= 3
    /\ metrics.cache_misses >= 1
    /\ \E s \in ErrorStatuses : metrics.error_counts[s] >= 1
    /\ \E c, d \in Conns : c # d /\ fwdCalls[c] >= 1 /\ fwdCalls[d] >= 1

\* the steps that end a critical section of the metrics mutex
ReleaseMetrics ==
    \/ \E c \in Conns : cache_lookup(c) \/ update_metrics(c)
    \/ metrics_route_reply
    \/ metrics_update_task_log

\* the steps that end a critical section of the cache mutex
ReleaseCache == \E c \in Conns : cache_lookup(c) \/ cache_insert(c)

\* C22: the locks are taken in one order and never held across a suspension,
\* so pipelines, the dashboard and the log task cannot deadlock: a pipeline
\* holds the metrics lock only inside the lookup (under the cache lock it took
\* first) or inside the update block (holding nothing else), never where it
\* asks for the cache lock; whoever holds the metrics lock releases it with
\* its next step; and whoever holds the cache lock either releases it with
\* its next step or is about to take the metrics lock, which it gets as soon
\* as that is free.
C22_LockOrderNoDeadlock ==
    /\ \A c \in Conns :
          /\ (metricsLock = c) <=> (pc[c] \in MetricsSections)
          /\ (cacheLock = c) <=> (pc[c] \in CacheSections)
          /\ (metricsLock = c /\ pc[c] = "CacheRecord") => cacheLock = c
    /\ cacheLock \in Conns \cup {NoOne}
    /\ metricsLock # NoOne => ENABLED (ReleaseMetrics /\ metricsLock' = NoOne)
    /\ cacheLock # NoOne =>
          \/ ENABLED (ReleaseCache /\ cacheLock' = NoOne)
          \/ /\ pc[cacheLock] = "CacheGet"
             /\ metricsLock # cacheLock
             /\ metricsLock = NoOne => ENABLED lock_metrics_for_lookup(cacheLock)

\* the dashboard holds the metrics lock while one pipeline, holding the cache
\* lock, and another pipeline, holding nothing, both wait for it
C22_Witness ==
    \E c, d \in Conns :
        /\ c # d
        /\ metricsLock = Dashboard
        /\ pc[c] = "CacheGet" /\ cacheLock = c
        /\ pc[d] = "UpdateMetrics"

\* positions of a request behind its cache lookup or without one
PastLookup ==
    {"Forwarding", "UpdateMetrics", "RecordRequest", "ReadBody", "CacheInsert",
     "CacheStore", "Responding"}

\* the cache lookups performed so far: one for every GET handled with caching
\* enabled that is answered, is being handled behind its lookup, or ended in
\* a forwarder error
LookupsPerformed ==
    IF ~config.cache_enabled THEN 0
    ELSE Cardinality({ r \in HandlerResponses : SentAt(r).method = GET })
         + Cardinality({ c \in Conns : pc[c] \in PastLookup /\ req[c].method = GET })
         + Cardinality({ c \in HardFailed : req[c].method = GET })

\* the GET requests that record_request has counted
RecordedGets ==
    Cardinality({ r \in ForwardedResponses : SentAt(r).method = GET })
    + Cardinality({ c \in Conns :
                      /\ req[c].method = GET
                      /\ \/ pc[c] \in {"ReadBody", "CacheInsert", "CacheStore"}
                         \/ pc[c] = "Responding" /\ resp[c].src # "cache" })

\* C23: the lookup of a GET handled with caching enabled adds one to exactly
\* one of cache_hits and cache_misses, to cache_hits exactly when the key is
\* in the cache at that moment, and nothing else changes the two; so
\* cache_hits + cache_misses is the number of lookups performed, and with
\* caching enabled every GET counted by record_request was counted as a miss
\* before.
C23_LookupCountsOnce ==
    [][ /\ \A c \in Conns :
              (pc[c] = "CacheRecord" /\ Acts(c)) =>
                  /\ req[c].method = GET /\ config.cache_enabled
                  /\ IF cache[req[c].uri].present
                     THEN /\ metrics'.cache_hits = metrics.cache_hits + 1
                          /\ metrics'.cache_misses = metrics.cache_misses
                     ELSE /\ metrics'.cache_hits = metrics.cache_hits
                          /\ metrics'.cache_misses = metrics.cache_misses + 1
        /\ (\A c \in Conns : ~(pc[c] = "CacheRecord" /\ Acts(c))) =>
              /\ metrics'.cache_hits = metrics.cache_hits
              /\ metrics'.cache_misses = metrics.cache_misses
        /\ metrics'.cache_hits + metrics'.cache_misses = LookupsPerformed'
        /\ config.cache_enabled => RecordedGets' <= metrics'.cache_misses ]_vars

\* two lookups were performed: one missed, was forwarded and recorded, the
\* other hit and is about to be answered from the cache
C23_Witness ==
    /\ config.cache_enabled
    /\ metrics.cache_hits = 1
    /\ metrics.cache_misses = 1
    /\ RecordedGets = 1
    /\ \E c \in Conns : pc[c] = "Responding" /\ resp[c].src = "cache"

\* the sum of the error counts of the statuses in S
RECURSIVE sum_counts(_, _)
sum_counts(counts, S) ==
    IF S = {} THEN 0
    ELSE LET s == CHOOSE x \in S : TRUE
         IN  counts[s] + sum_counts(counts, S \ {s})

\* C24: in every reachable state the number of latency samples is
\* total_requests and the error counts sum to at most total_requests; an error
\* count changes only by one, in the step that also records the request, and
\* only for a forwarded response whose status is not 2xx.
C24_SamplesAndErrorsBounded ==
    [][ /\ Len(metrics'.response_times) = metrics'.total_requests
        /\ sum_counts(metrics'.error_counts, ErrorStatuses) <= metrics'.total_requests
        /\ \A s \in ErrorStatuses :
              metrics'.error_counts[s] # metrics.error_counts[s] =>
                  /\ metrics'.error_counts[s] = metrics.error_counts[s] + 1
                  /\ metrics'.total_requests = metrics.total_requests + 1
                  /\ \E c \in Conns :
                        /\ pc[c] = "RecordRequest" /\ Acts(c)
                        /\ resp[c].status = s
                        /\ ~is_success(s)
                        /\ resp[c].src \in {"upstream", "synthetic"} ]_vars

\* two requests were recorded, exactly one of them with a non-2xx status
C24_Witness ==
    /\ metrics.total_requests = 2
    /\ Len(metrics.response_times) = 2
    /\ sum_counts(metrics.error_counts, ErrorStatuses) = 1

====
